---- MODULE Spec2Model ----
(***************************************************************************)
(* mdbook-private: the preprocessor of src/lib.rs as a state machine.      *)
(* One run of Private::run resolves the configuration, applies the regex   *)
(* RE to the content of every chapter, and in remove mode filters the      *)
(* chapter tree (process_item) and renumbers it (update_section_numbers).  *)
(* Text is a sequence of one-character strings.                            *)
(***************************************************************************)
EXTENDS Integers, Sequences, FiniteSets, TLC

VARIABLES config, input, book, private_book, pc, todo, remove, style, notice, prefix, result,
          host_renderer, supported

vars == <<config, input, book, private_book, pc, todo, remove, style, notice, prefix, result,
          host_renderer, supported>>

(***************************************************************************)
(* Bounds of the model.                                                    *)
(***************************************************************************)
MaxSegs == 3
MaxNodes == 3

(***************************************************************************)
(* Text.                                                                   *)
(***************************************************************************)
RECURSIVE Flatten(_)
Flatten(ss) == IF ss = <<>> THEN <<>> ELSE Head(ss) \o Flatten(Tail(ss))

T_OPEN == <<"<", "!", "-", "-">>
T_KEY == <<"p", "r", "i", "v", "a", "t", "e">>
T_CLOSE == <<"-", "-", ">">>
T_KEYCAP == <<"P", "r", "i", "v", "a", "t", "e">>

\* \s of the regex crate, on the characters of the model
IsSpace(ch) == ch \in {" ", "\n", "\r", "\t"}

\* \w of the regex crate, on the characters of the model
IsWord(ch) == ch \in {"p", "r", "i", "v", "a", "t", "e", "P", "b", "_", "m", "d", "C", "N"}

\* the character class [\r?\n] of RE: carriage return, question mark, line feed
InLineClass(ch) == ch \in {"\r", "?", "\n"}

\* text c holds the literal lit at position i (1-based)
StartsWithAt(c, i, lit) ==
    /\ i >= 1
    /\ i + Len(lit) - 1 <= Len(c)
    /\ \A k \in 1..Len(lit) : c[i + k - 1] = lit[k]

\* the position after the longest run of \s that starts at i
RECURSIVE SkipSpace(_, _)
SkipSpace(c, i) == IF i <= Len(c) /\ IsSpace(c[i]) THEN SkipSpace(c, i + 1) ELSE i

\* the regex without its \b
WordBoundaryDropped(c, i) == TRUE

\* \b at position i: exactly one of the characters before and at i is a word character
WordBoundaryAt(c, i) ==
    LET before == i > 1 /\ i - 1 <= Len(c) /\ IsWord(c[i - 1])
        after == i >= 1 /\ i <= Len(c) /\ IsWord(c[i])
    IN before # after

(***************************************************************************)
(* RE = <!--\s*private\b\s*[\r?\n]?((?s).*?)[\r?\n]?\s*-->[\r?\n]?         *)
(* matched with the priorities of the regex crate (leftmost first: a       *)
(* greedy piece tries its longest extent first, a lazy piece its shortest).*)
(***************************************************************************)
NoMatch == [ok |-> FALSE, start |-> 0, cs |-> 0, ce |-> 0, end |-> 0]

\* the final [\r?\n]? after -->: one character of the class, if there is one
EndAfterClose(c, e) == IF e <= Len(c) /\ InLineClass(c[e]) THEN e + 1 ELSE e

\* \s*-->[\r?\n]? at q, the \s* ending at r or before (greedy): the match end, 0 if none
RECURSIVE CloseFrom(_, _, _)
CloseFrom(c, q, r) ==
    IF r < q THEN 0
    ELSE IF StartsWithAt(c, r, T_CLOSE) THEN EndAfterClose(c, r + Len(T_CLOSE))
    ELSE CloseFrom(c, q, r - 1)

CloseAt(c, q) == CloseFrom(c, q, SkipSpace(c, q))

\* [\r?\n]?\s*-->[\r?\n]? at p: the class character is taken first when present
TailAt(c, p) ==
    IF p <= Len(c) /\ InLineClass(c[p]) /\ CloseAt(c, p + 1) # 0 THEN CloseAt(c, p + 1)
    ELSE CloseAt(c, p)

\* (.*?) from s with (?s): the shortest capture after which the tail matches
RECURSIVE PayloadEnd(_, _)
PayloadEnd(c, p) ==
    IF p > Len(c) + 1 THEN 0
    ELSE IF TailAt(c, p) # 0 THEN p
    ELSE PayloadEnd(c, p + 1)

\* the capture group starting at s: its end and the end of the match
BodyAt(c, i, s) ==
    LET ce == PayloadEnd(c, s)
    IN IF ce = 0 THEN NoMatch
       ELSE [ok |-> TRUE, start |-> i, cs |-> s, ce |-> ce, end |-> TailAt(c, ce)]

\* \s*[\r?\n]? after the keyword, the \s* ending at w or before (greedy), then the capture
RECURSIVE LeadFrom(_, _, _, _)
LeadFrom(c, i, j, w) ==
    IF w < j THEN NoMatch
    ELSE IF w <= Len(c) /\ InLineClass(c[w]) /\ BodyAt(c, i, w + 1).ok THEN BodyAt(c, i, w + 1)
    ELSE IF BodyAt(c, i, w).ok THEN BodyAt(c, i, w)
    ELSE LeadFrom(c, i, j, w - 1)

\* private\b at k, then the rest
KeyAt(c, i, k) ==
    IF StartsWithAt(c, k, T_KEY) /\ WordBoundaryAt(c, k + Len(T_KEY))
    THEN LeadFrom(c, i, k + Len(T_KEY), SkipSpace(c, k + Len(T_KEY)))
    ELSE NoMatch

\* \s* after <!--, ending at k or before (greedy), then the keyword
RECURSIVE OpenFrom(_, _, _, _)
OpenFrom(c, i, j, k) ==
    IF k < j THEN NoMatch
    ELSE IF KeyAt(c, i, k).ok THEN KeyAt(c, i, k)
    ELSE OpenFrom(c, i, j, k - 1)

\* RE anchored at position i
RE_at(c, i) ==
    IF StartsWithAt(c, i, T_OPEN)
    THEN OpenFrom(c, i, i + Len(T_OPEN), SkipSpace(c, i + Len(T_OPEN)))
    ELSE NoMatch

\* the leftmost match of RE that starts at from or later
RECURSIVE RE_find(_, _)
RE_find(c, from) ==
    IF from > Len(c) THEN NoMatch
    ELSE IF RE_at(c, from).ok THEN RE_at(c, from)
    ELSE RE_find(c, from + 1)

\* the successive non-overlapping matches, as Regex::replace_all iterates them
RECURSIVE RE_matches(_, _)
RE_matches(c, from) ==
    LET m == RE_find(c, from)
    IN IF m.ok THEN <<m>> \o RE_matches(c, m.end) ELSE <<>>

Slice(c, a, b) == IF a > b THEN <<>> ELSE SubSeq(c, a, b)

STYLE_CONTENT == "position: relative; padding: 20px 20px;"
STYLE_NOTICE == "position: absolute; top: 0; right: 5px; font-size: 80%; opacity: 0.4;"

\* the literal pieces of the format! string of the styled replacement
WrapOpen == <<"<blockquote style='", STYLE_CONTENT, "'><span style='", STYLE_NOTICE, "'>">>
WrapMid == <<"</span>">>
WrapEnd == <<"</blockquote>", "\n">>

\* the replacement of one match: "" in remove mode, else the closure of run
Replacement(c, m, rm, st, nt) ==
    LET cap == Slice(c, m.cs, m.ce - 1)
    IN IF rm THEN <<>>
       ELSE IF st THEN WrapOpen \o nt \o WrapMid \o cap \o WrapEnd
       ELSE cap \o <<"\n">>

RECURSIVE Rebuild(_, _, _, _, _, _)
Rebuild(c, ms, pos, rm, st, nt) ==
    IF ms = <<>> THEN Slice(c, pos, Len(c))
    ELSE LET m == Head(ms)
         IN Slice(c, pos, m.start - 1) \o Replacement(c, m, rm, st, nt)
              \o Rebuild(c, Tail(ms), m.end, rm, st, nt)

\* Regex::replace in the place of replace_all: the first match alone is replaced
replace_first(c, rm, st, nt) ==
    LET ms == RE_matches(c, 1)
    IN Rebuild(c, IF ms = <<>> THEN <<>> ELSE <<Head(ms)>>, 1, rm, st, nt)

\* RE.replace_all(content, ...) of run
replace_all(c, rm, st, nt) == Rebuild(c, RE_matches(c, 1), 1, rm, st, nt)

(***************************************************************************)
(* The book: a sequence of items.  A chapter is a record                   *)
(*   [kind, name, content, number, sub_items, path, source_path,           *)
(*    parent_names];                                                       *)
(* an Option is <<>> (None) or <<x>> (Some(x)); a path is text with "/".   *)
(***************************************************************************)
IsChapter(item) == item.kind = "Chapter"

Separator == [kind |-> "Separator"]
PartTitle == [kind |-> "PartTitle", title |-> <<"P">>]

\* the components of a path, as Path::components yields them ("" and "." dropped)
RECURSIVE Components(_, _)
Components(p, cur) ==
    LET keep == IF cur = <<>> \/ cur = <<".">> THEN <<>> ELSE <<cur>>
    IN IF p = <<>> THEN keep
       ELSE IF Head(p) = "/" THEN keep \o Components(Tail(p), <<>>)
       ELSE Components(Tail(p), Append(cur, Head(p)))

\* Path::file_name: the final component, None when there is none or it is ".."
file_name(p) ==
    LET cs == Components(p, <<>>)
    IN IF cs = <<>> \/ cs[Len(cs)] = <<".", ".">> THEN <<>> ELSE <<cs[Len(cs)]>>

\* str::starts_with
starts_with(s, pre) == StartsWithAt(s, 1, pre)

\* the test of process_item that ends in `return None`: each `?` returns None too
Dropped(ch, pre) ==
    IF ch.source_path = <<>> THEN TRUE
    ELSE IF file_name(ch.source_path[1]) = <<>> THEN TRUE
    ELSE starts_with(file_name(ch.source_path[1])[1], pre)

RECURSIVE process_item(_, _)
RECURSIVE process_items(_, _)
\* process_item without the loop over sub_items
process_item_shallow(item, pre) ==
    IF IsChapter(item) /\ Dropped(item, pre) THEN <<>> ELSE <<item>>

\* process_item building the kept chapter anew, without the names of its parents
process_item_rebuilt(item, pre) ==
    IF IsChapter(item)
    THEN IF Dropped(item, pre) THEN <<>>
         ELSE <<[item EXCEPT !.parent_names = <<>>,
                             !.sub_items = process_items(item.sub_items, pre)]>>
    ELSE <<item>>

\* process_item: None (<<>>) or Some(item) (<<item>>)
process_item(item, pre) ==
    IF IsChapter(item)
    THEN IF Dropped(item, pre) THEN <<>>
         ELSE <<[item EXCEPT !.sub_items = process_items(item.sub_items, pre)]>>
    ELSE <<item>>

\* the loops over sub_items / book.sections that keep the Some results, in order
process_items(items, pre) ==
    IF items = <<>> THEN <<>>
    ELSE process_item(Head(items), pre) \o process_items(Tail(items), pre)

RECURSIVE update_chapter_numbers(_, _)
RECURSIVE RenumberCountingAll(_, _, _)
\* a loop whose counter advances on every chapter, the unnumbered ones too
RenumberCountingAll(chapters, section_counter, current_number) ==
    IF chapters = <<>> THEN <<>>
    ELSE LET item == Head(chapters)
             pushed == Append(current_number, section_counter)
         IN IF IsChapter(item) /\ item.number # <<>>
            THEN <<[item EXCEPT !.number = <<pushed>>,
                                !.sub_items = update_chapter_numbers(item.sub_items, pushed)]>>
                   \o RenumberCountingAll(Tail(chapters), section_counter + 1, current_number)
            ELSE <<item>> \o RenumberCountingAll(Tail(chapters),
                                    IF IsChapter(item) THEN section_counter + 1
                                    ELSE section_counter, current_number)

RECURSIVE RenumberFrom(_, _, _)
\* the loop of update_chapter_numbers from one item on, section_counter being its counter
RenumberFrom(chapters, section_counter, current_number) ==
    IF chapters = <<>> THEN <<>>
    ELSE LET item == Head(chapters)
             pushed == Append(current_number, section_counter)
         IN IF IsChapter(item) /\ item.number # <<>>
            THEN <<[item EXCEPT !.number = <<pushed>>,
                                !.sub_items = update_chapter_numbers(item.sub_items, pushed)]>>
                   \o RenumberFrom(Tail(chapters), section_counter + 1, current_number)
            ELSE <<item>> \o RenumberFrom(Tail(chapters), section_counter, current_number)

update_chapter_numbers(chapters, current_number) == RenumberFrom(chapters, 1, current_number)

update_section_numbers(sections) == update_chapter_numbers(sections, <<>>)

RECURSIVE for_each_top(_, _, _)
\* a walk over the top-level sections only, as `for item in book.sections.iter_mut()`
for_each_top(items, i, at) ==
    IF i > Len(items) THEN <<>>
    ELSE <<Append(at, i)>> \o for_each_top(items, i + 1, at)

\* Book::for_each_mut: the items in the order the closure is called on them
\* (the sub_items of a chapter before the chapter), each as its index path
RECURSIVE for_each_order(_, _, _)
for_each_order(items, i, at) ==
    IF i > Len(items) THEN <<>>
    ELSE (IF IsChapter(items[i]) THEN for_each_order(items[i].sub_items, 1, Append(at, i)) ELSE <<>>)
           \o <<Append(at, i)>> \o for_each_order(items, i + 1, at)

RECURSIVE ItemAt(_, _)
ItemAt(items, at) ==
    IF Len(at) = 1 THEN items[at[1]] ELSE ItemAt(items[at[1]].sub_items, Tail(at))

\* the closure of run on one item: a chapter's content is replaced, other items are left
ClosureOn(item, rm, st, nt) ==
    IF IsChapter(item)
    THEN [item EXCEPT !.content = replace_all(item.content, rm, st, nt)]
    ELSE item

RECURSIVE ApplyAt(_, _, _, _, _)
ApplyAt(items, at, rm, st, nt) ==
    IF Len(at) = 1
    THEN [items EXCEPT ![at[1]] = ClosureOn(items[at[1]], rm, st, nt)]
    ELSE [items EXCEPT ![at[1]] =
            [items[at[1]] EXCEPT !.sub_items = ApplyAt(items[at[1]].sub_items, Tail(at), rm, st, nt)]]

\* an answer that refuses the empty renderer name too
supports_named(renderer) == renderer \notin {"not-supported", ""}

supports_renderer(renderer) == renderer # "not-supported"

(***************************************************************************)
(* The configuration table of the preprocessor: config.table is FALSE when *)
(* get_preprocessor returns None; a key is absent or holds a typed value.  *)
(***************************************************************************)
Absent == [t |-> "absent", b |-> FALSE, s |-> <<>>]
BoolVal(x) == [t |-> "bool", b |-> x, s |-> <<>>]
StrVal(x) == [t |-> "str", b |-> FALSE, s |-> x]
IntVal == [t |-> "int", b |-> FALSE, s |-> <<>>]

NoTable == [table |-> FALSE, remove |-> Absent, style |-> Absent, notice |-> Absent,
            chapter_prefix |-> Absent]
EmptyTable == [NoTable EXCEPT !.table = TRUE]

DefaultNotice == <<"C", "O", "N", "F", "I", "D", "E", "N", "T", "I", "A", "L">>
DefaultPrefix == <<"_">>

\* an unwrap() of run panics: as_bool()/as_str() gave None for a key that is read
ConfigPanics(c) ==
    /\ c.table
    /\ \/ c.remove.t \notin {"absent", "bool"}
       \/ c.style.t \notin {"absent", "bool"}
       \/ c.style.t # "absent" /\ c.notice.t \notin {"absent", "str"}
       \/ c.chapter_prefix.t \notin {"absent", "str"}

ResolveRemove(c) == IF c.table /\ c.remove.t = "bool" THEN c.remove.b ELSE FALSE
ResolveStyle(c) == IF c.table /\ c.style.t = "bool" THEN c.style.b ELSE TRUE
\* notice is read inside the `if private_cfg.contains_key("style")` block
ResolveNotice(c) ==
    IF c.table /\ c.style.t # "absent" /\ c.notice.t = "str" THEN c.notice.s ELSE DefaultNotice
ResolvePrefix(c) ==
    IF c.table /\ c.chapter_prefix.t = "str" THEN c.chapter_prefix.s ELSE DefaultPrefix

(***************************************************************************)
(* One run of Private::run.                                                *)
(***************************************************************************)
\* the book the run returns
Returned == IF remove THEN private_book ELSE book

Panic ==
    /\ pc = "start"
    /\ ConfigPanics(config)
    /\ pc' = "panicked"
    /\ result' = "panic"
    /\ UNCHANGED <<config, input, book, private_book, todo, remove, style, notice, prefix>>
    /\ UNCHANGED <<host_renderer, supported>>

ResolveConfig ==
    /\ pc = "start"
    /\ ~ConfigPanics(config)
    /\ remove' = ResolveRemove(config)
    /\ style' = ResolveStyle(config)
    /\ notice' = ResolveNotice(config)
    /\ prefix' = ResolvePrefix(config)
    /\ todo' = for_each_order(book, 1, <<>>)
    /\ pc' = "extract"
    /\ UNCHANGED <<config, input, book, private_book, result>>
    /\ UNCHANGED <<host_renderer, supported>>

\* one call of the closure handed to book.for_each_mut
ExtractItem ==
    /\ pc = "extract"
    /\ todo # <<>>
    /\ book' = ApplyAt(book, Head(todo), remove, style, notice)
    /\ todo' = Tail(todo)
    /\ UNCHANGED <<config, input, private_book, pc, remove, style, notice, prefix, result>>
    /\ UNCHANGED <<host_renderer, supported>>

\* a filter that does not wait for the end of the walk over the chapters
FilterEarly ==
    /\ pc = "extract"
    /\ remove
    /\ private_book' = process_items(book, prefix)
    /\ pc' = "renumber"
    /\ UNCHANGED <<config, input, book, todo, remove, style, notice, prefix, result>>
    /\ UNCHANGED <<host_renderer, supported>>

\* book.sections.iter().filter_map(process_item).for_each(push_item)
FilterChapters ==
    /\ pc = "extract"
    /\ todo = <<>>
    /\ remove
    /\ private_book' = process_items(book, prefix)
    /\ pc' = "renumber"
    /\ UNCHANGED <<config, input, book, todo, remove, style, notice, prefix, result>>
    /\ UNCHANGED <<host_renderer, supported>>

UpdateNumbers ==
    /\ pc = "renumber"
    /\ private_book' = update_section_numbers(private_book)
    /\ pc' = "return"
    /\ UNCHANGED <<config, input, book, todo, remove, style, notice, prefix, result>>
    /\ UNCHANGED <<host_renderer, supported>>

\* return Ok(private_book)
ReturnPrivate ==
    /\ pc = "return"
    /\ result' = "Ok"
    /\ pc' = "done"
    /\ UNCHANGED <<config, input, book, private_book, todo, remove, style, notice, prefix>>
    /\ UNCHANGED <<host_renderer, supported>>

\* Ok(book)
ReturnBook ==
    /\ pc = "extract"
    /\ todo = <<>>
    /\ ~remove
    /\ result' = "Ok"
    /\ pc' = "done"
    /\ UNCHANGED <<config, input, book, private_book, todo, remove, style, notice, prefix>>
    /\ UNCHANGED <<host_renderer, supported>>

Next ==
    \/ Panic
    \/ ResolveConfig
    \/ ExtractItem
    \/ FilterChapters
    \/ UpdateNumbers
    \/ ReturnPrivate
    \/ ReturnBook

\* the state at the call of run, for a book and a configuration
Start(b, c) ==
    /\ config = c
    /\ input = b
    /\ book = b
    /\ private_book = <<>>
    /\ pc = "start"
    /\ todo = <<>>
    /\ remove = FALSE
    /\ style = TRUE
    /\ notice = DefaultNotice
    /\ prefix = DefaultPrefix
    /\ result = "none"
    /\ host_renderer = "html"
    /\ supported = TRUE

(***************************************************************************)
(* The inputs of the model.                                                *)
(***************************************************************************)
Path_a == <<"a">>
Path_priv == <<"_", "a">>
Path_dir == <<"_", "d", "/", "a">>

\* the chapters of the input trees: numbered or not, and the kind of source_path
ChapterKinds ==
    {[numbered |-> TRUE, source |-> "public"],
     [numbered |-> TRUE, source |-> "private"],
     [numbered |-> TRUE, source |-> "none"],
     [numbered |-> FALSE, source |-> "public"]}

\* a chapter before its name, numbers, paths and content are filled in
RawChapter(numbered, source, sub) ==
    [kind |-> "Chapter", numbered |-> numbered, source |-> source, sub |-> sub]

RawMarker == [kind |-> "Marker"]

RECURSIVE RawTrees(_)
RECURSIVE RawForests(_)
\* the items with exactly k nodes
RawTrees(k) ==
    (IF k = 1 THEN {RawMarker} ELSE {})
      \cup {RawChapter(ck.numbered, ck.source, sub) : ck \in ChapterKinds, sub \in RawForests(k - 1)}

\* the sequences of items with exactly n nodes in all
RawForests(n) ==
    IF n = 0 THEN {<<>>}
    ELSE UNION {{<<t>> \o r : t \in RawTrees(k), r \in RawForests(n - k)} : k \in 1..n}

PlainText == <<"a">>
SecretText == T_OPEN \o T_KEY \o <<"\n", "b", "\n">> \o T_CLOSE \o <<"\n", "a">>

\* the number a numbered chapter carries in the input: its position among the numbered
\* siblings, or another value when the numbers of the input are not by position
InputComponent(cnt, skew) == IF skew THEN 2 * cnt + 3 ELSE cnt

\* a family of input trees: how the numbers, contents, paths and markers are filled in
Family(skew, secret, public, private, marker) ==
    [skew |-> skew, secret |-> secret, public |-> public, private |-> private,
     marker |-> marker]

SourceOf(kind, fam) ==
    IF kind = "public" THEN <<fam.public>>
    ELSE IF kind = "private" THEN <<fam.private>>
    ELSE <<>>

RECURSIVE Label(_, _, _, _, _, _, _)
\* the items of a raw forest from index i on: name = index path, parent_names = the
\* names of the ancestors, number = the parent's number extended
Label(raw, i, cnt, at, pnames, pnum, fam) ==
    IF i > Len(raw) THEN <<>>
    ELSE LET r == raw[i]
             me == Append(at, i)
         IN IF IsChapter(r)
            THEN LET num == Append(pnum, IF r.numbered THEN InputComponent(cnt, fam.skew) ELSE i)
                 IN <<[kind |-> "Chapter",
                       name |-> me,
                       content |-> IF fam.secret THEN SecretText ELSE PlainText,
                       number |-> IF r.numbered THEN <<num>> ELSE <<>>,
                       sub_items |-> Label(r.sub, 1, 1, me, Append(pnames, me), num, fam),
                       path |-> SourceOf(r.source, fam),
                       source_path |-> SourceOf(r.source, fam),
                       parent_names |-> pnames]>>
                      \o Label(raw, i + 1, IF r.numbered THEN cnt + 1 ELSE cnt, at, pnames,
                               pnum, fam)
            ELSE <<fam.marker>> \o Label(raw, i + 1, cnt, at, pnames, pnum, fam)

Books(fam) ==
    {Label(raw, 1, 1, <<>>, <<>>, <<>>, fam) : raw \in UNION {RawForests(n) : n \in 0..MaxNodes}}

RemoveTable == [EmptyTable EXCEPT !.remove = BoolVal(TRUE)]
CustomPrefix == <<"a">>
CustomTable == [RemoveTable EXCEPT !.chapter_prefix = StrVal(CustomPrefix)]
BadTable == [EmptyTable EXCEPT !.remove = StrVal(<<"a">>)]

\* the runs on chapter trees: remove mode with the default and with a configured
\* prefix, keep mode, and a configuration that cannot be read
Init ==
    \/ \E b \in Books(Family(FALSE, FALSE, Path_a, Path_priv, Separator)) :
          Start(b, RemoveTable)
    \/ \E b \in Books(Family(TRUE, TRUE, Path_dir, Path_priv, PartTitle)) :
          Start(b, RemoveTable)
    \/ \E b \in Books(Family(FALSE, TRUE, Path_priv, Path_a, Separator)) :
          Start(b, CustomTable)
    \/ \E b \in Books(Family(TRUE, TRUE, Path_a, Path_priv, PartTitle)) :
          Start(b, NoTable)
    \/ Start(<<>>, BadTable)

(***************************************************************************)
(* The runs on one chapter whose content is put together from segments.    *)
(***************************************************************************)
Segments ==
    {T_OPEN, T_KEY, T_CLOSE, T_KEYCAP, <<" ">>, <<"\n">>, <<"\r">>, <<"?">>, <<"a">>,
     T_OPEN \o T_KEY, T_KEY \o T_CLOSE, T_OPEN \o T_KEY \o T_CLOSE}

Contents == {Flatten(ss) : ss \in UNION {[1..n -> Segments] : n \in 0..MaxSegs}}

OneChapter(c) ==
    <<[kind |-> "Chapter", name |-> <<1>>, content |-> c, number |-> <<<<1>>>>,
       sub_items |-> <<>>, path |-> <<Path_a>>, source_path |-> <<Path_a>>,
       parent_names |-> <<>>]>>

CustomNotice == <<"N">>

TextTables ==
    {RemoveTable,
     [RemoveTable EXCEPT !.style = BoolVal(FALSE), !.notice = StrVal(CustomNotice)],
     NoTable,
     [EmptyTable EXCEPT !.style = BoolVal(TRUE), !.notice = StrVal(CustomNotice)],
     [EmptyTable EXCEPT !.style = BoolVal(FALSE)]}

InitText ==
    \/ \E c \in Contents : \E t \in TextTables : Start(OneChapter(c), t)
    \/ Start(OneChapter(<<>>), BadTable)

SpecText == InitText /\ [][Next]_vars

(***************************************************************************)
(* The host: it asks supports_renderer for its renderer and calls run when      *)
(* the answer is true, with any configuration table.                       *)
(***************************************************************************)
Renderers == {"html", "markdown", "", "not-supported", "Not-Supported", "not-supported-2"}

\* the host's question, answered by supports_renderer
AskSupport ==
    /\ pc = "supports"
    /\ supported' = supports_renderer(host_renderer)
    /\ pc' = IF supports_renderer(host_renderer) THEN "start" ELSE "skipped"
    /\ UNCHANGED <<config, input, book, private_book, todo, remove, style, notice, prefix,
                   result, host_renderer>>

RemoveValues == {Absent, BoolVal(TRUE), BoolVal(FALSE), IntVal}
StyleValues == {Absent, BoolVal(TRUE), BoolVal(FALSE), IntVal}
NoticeValues == {Absent, StrVal(CustomNotice), IntVal}
PrefixValues == {Absent, StrVal(CustomPrefix), IntVal}

\* every table over the four recognized keys, and no table
Tables ==
    {NoTable} \cup
    {[table |-> TRUE, remove |-> r, style |-> s, notice |-> n, chapter_prefix |-> p] :
        r \in RemoveValues, s \in StyleValues, n \in NoticeValues, p \in PrefixValues}

\* a book of two chapters with a private block each, the second under the first
HostBook ==
    <<[kind |-> "Chapter", name |-> <<1>>, content |-> SecretText, number |-> <<<<1>>>>,
       sub_items |->
           <<[kind |-> "Chapter", name |-> <<1, 1>>, content |-> SecretText,
              number |-> <<<<1, 1>>>>, sub_items |-> <<>>, path |-> <<Path_a>>,
              source_path |-> <<Path_a>>, parent_names |-> <<<<1>>>>]>>,
       path |-> <<Path_priv>>, source_path |-> <<Path_priv>>, parent_names |-> <<>>]>>

InitHost ==
    \E t \in Tables : \E r \in Renderers : \E b \in {HostBook, OneChapter(SecretText)} :
        /\ config = t
        /\ input = b
        /\ book = b
        /\ private_book = <<>>
        /\ pc = "supports"
        /\ todo = <<>>
        /\ remove = FALSE
        /\ style = TRUE
        /\ notice = DefaultNotice
        /\ prefix = DefaultPrefix
        /\ result = "none"
        /\ host_renderer = r
        /\ supported = FALSE

NextHost ==
    \/ AskSupport
    \/ Next

SpecHost == InitHost /\ [][NextHost]_vars

Spec == Init /\ [][Next]_vars

\* the runs on trees with private blocks: one family in remove mode, one in keep
\* mode, and the table that cannot be read
InitLive ==
    \/ \E b \in Books(Family(TRUE, TRUE, Path_dir, Path_priv, PartTitle)) :
          Start(b, RemoveTable)
    \/ \E b \in Books(Family(TRUE, TRUE, Path_a, Path_priv, PartTitle)) :
          Start(b, NoTable)
    \/ Start(<<>>, BadTable)

\* the steps of run other than the calls of the closure
RunStep ==
    \/ Panic
    \/ ResolveConfig
    \/ FilterChapters
    \/ UpdateNumbers
    \/ ReturnPrivate
    \/ ReturnBook

\* weak fairness of ExtractItem, its enabling condition written out: for_each_mut goes
\* on to the next item as long as one is left
ExtractFair == []<>(~(pc = "extract" /\ todo # <<>>)) \/ []<><<ExtractItem>>_vars

\* run is sequential code without loops but those over the finite tree: a run that can
\* take a step takes it
SpecLive == InitLive /\ [][Next]_vars /\ WF_vars(RunStep) /\ ExtractFair

(***************************************************************************)
(* The terms of the claims about chapter text: a private block as the      *)
(* specification describes it, found without the regex.                    *)
(***************************************************************************)
Finished == pc = "done" /\ result = "Ok"

\* the run was on one chapter, which is in the returned book
OneIn == Len(input) = 1 /\ IsChapter(input[1]) /\ input[1].sub_items = <<>>
OneOut == Finished /\ OneIn /\ Len(Returned) = 1
InContent == input[1].content
OutContent == Returned[1].content

RECURSIVE HasSubFrom(_, _, _)
HasSubFrom(c, lit, i) ==
    IF i + Len(lit) - 1 > Len(c) THEN FALSE
    ELSE StartsWithAt(c, i, lit) \/ HasSubFrom(c, lit, i + 1)

HasSub(c, lit) == HasSubFrom(c, lit, 1)

RECURSIVE FirstSub(_, _, _)
\* the first position at or after i where lit stands, 0 if none
FirstSub(c, lit, i) ==
    IF i + Len(lit) - 1 > Len(c) THEN 0
    ELSE IF StartsWithAt(c, i, lit) THEN i
    ELSE FirstSub(c, lit, i + 1)

\* the length of the line break at position e: "\r\n", "\n" or "\r", 0 if none
LineBreakLen(c, e) ==
    IF e + 1 <= Len(c) /\ c[e] = "\r" /\ c[e + 1] = "\n" THEN 2
    ELSE IF e <= Len(c) /\ c[e] \in {"\n", "\r"} THEN 1
    ELSE 0

\* the position after the opening marker that starts at i (<!--, whitespace, the
\* keyword private as a whole word), 0 if none starts there
OpeningEnd(c, i) ==
    LET k == SkipSpace(c, i + Len(T_OPEN))
        e == k + Len(T_KEY)
    IN IF StartsWithAt(c, i, T_OPEN) /\ StartsWithAt(c, k, T_KEY)
            /\ ~(e <= Len(c) /\ IsWord(c[e]))
       THEN e ELSE 0

NoBlock == [ok |-> FALSE, start |-> 0, ps |-> 0, q |-> 0, end |-> 0]

\* the private block that starts at i: its payload runs from ps to the first -->
\* (at q), and the block ends after one line break that follows the -->
BlockAt(c, i) ==
    LET ps == OpeningEnd(c, i)
        q == IF ps = 0 THEN 0 ELSE FirstSub(c, T_CLOSE, ps)
        e == q + Len(T_CLOSE)
    IN IF q = 0 THEN NoBlock
       ELSE [ok |-> TRUE, start |-> i, ps |-> ps, q |-> q, end |-> e + LineBreakLen(c, e)]

RECURSIVE Blocks(_, _)
\* the private blocks of c from position i on, left to right
Blocks(c, i) ==
    IF i > Len(c) THEN <<>>
    ELSE IF BlockAt(c, i).ok THEN <<BlockAt(c, i)>> \o Blocks(c, BlockAt(c, i).end)
    ELSE Blocks(c, i + 1)

RECURSIVE TrimLeft(_)
TrimLeft(t) == IF t # <<>> /\ IsSpace(Head(t)) THEN TrimLeft(Tail(t)) ELSE t
RECURSIVE TrimRight(_)
TrimRight(t) ==
    IF t # <<>> /\ IsSpace(t[Len(t)]) THEN TrimRight(SubSeq(t, 1, Len(t) - 1)) ELSE t
Trim(t) == TrimRight(TrimLeft(t))

RECURSIVE NonSpace(_)
\* the characters of t that are not whitespace, in order
NonSpace(t) ==
    IF t = <<>> THEN <<>>
    ELSE (IF IsSpace(Head(t)) THEN <<>> ELSE <<Head(t)>>) \o NonSpace(Tail(t))

\* the text between the opening marker and the closing marker of block b
RawPayload(c, b) == Slice(c, b.ps, b.q - 1)

RECURSIVE Join(_, _, _, _)
\* c with the k-th block of bs replaced by reps[k], from position pos on
Join(c, bs, reps, pos) ==
    IF bs = <<>> THEN Slice(c, pos, Len(c))
    ELSE Slice(c, pos, Head(bs).start - 1) \o Head(reps)
           \o Join(c, Tail(bs), Tail(reps), Head(bs).end)

\* c with every private block deleted
BlocksDeleted(c) ==
    LET bs == Blocks(c, 1) IN Join(c, bs, [k \in 1..Len(bs) |-> <<>>], 1)

\* c with every private block replaced by its payload and one line break
BlocksUnwrapped(c) ==
    LET bs == Blocks(c, 1)
    IN Join(c, bs, [k \in 1..Len(bs) |-> Append(Trim(RawPayload(c, bs[k])), "\n")], 1)

\* C1: in remove mode the content of the chapter is the input content with the private
\* blocks (opening marker, payload, -->, one following line break) deleted and every
\* other character kept in order
C1_RemoveDeletesBlocks ==
    (OneOut /\ remove) => OutContent = BlocksDeleted(InContent)

\* the wrappers of a styled output, in order: [ok, notice, payload] for each
\* <blockquote ...> that stands in t
RECURSIVE Wrappers(_)
Wrappers(t) ==
    IF t = <<>> THEN <<>>
    ELSE IF Head(t) # WrapOpen[1] THEN Wrappers(Tail(t))
    ELSE LET n0 == Len(WrapOpen) + 1
             m == FirstSub(t, WrapMid, n0)
             e == IF m = 0 THEN 0 ELSE FirstSub(t, WrapEnd, m + 1)
         IN IF ~StartsWithAt(t, 1, WrapOpen) \/ m = 0 \/ e = 0
            THEN <<[ok |-> FALSE, notice |-> <<>>, payload |-> <<>>]>> \o Wrappers(Tail(t))
            ELSE <<[ok |-> TRUE, notice |-> Slice(t, n0, m - 1),
                    payload |-> Slice(t, m + 1, e - 1)]>>
                   \o Wrappers(Slice(t, e + Len(WrapEnd), Len(t)))

\* C2: in keep+styled mode each private block gives one wrapper holding the notice once,
\* then the payload (the text between the markers, no character of it that is not
\* whitespace dropped or altered), then one line break
C2_StyledKeepsPayload ==
    (OneOut /\ ~remove /\ style) =>
        LET bs == Blocks(InContent, 1)
            ws == Wrappers(OutContent)
        IN /\ Len(ws) = Len(bs)
           /\ \A k \in 1..Len(ws) :
                 /\ ws[k].ok
                 /\ ws[k].notice = notice
                 /\ NonSpace(ws[k].payload) = NonSpace(RawPayload(InContent, bs[k]))

\* C3: in keep+unstyled mode each private block is replaced by its payload and one line
\* break, without wrapper or notice, and the text outside the blocks is unchanged
C3_UnstyledUnwraps ==
    (OneOut /\ ~remove /\ ~style) => OutContent = BlocksUnwrapped(InContent)

\* C4: content that holds no private block (a longer word after the keyword, another
\* letter case, an ordinary comment, an opening marker without -->) is returned
\* unchanged in each mode
C4_NoMarkerIdentity ==
    (OneOut /\ Blocks(InContent, 1) = <<>>) => OutContent = InContent

\* the opening of a comment stands in the input, the keyword too, and nothing was a block
C4_Witness ==
    /\ OneOut
    /\ Blocks(InContent, 1) = <<>>
    /\ HasSub(InContent, T_OPEN \o T_KEY)
    /\ HasSub(InContent, T_CLOSE)
    /\ OutContent = InContent

\* C5 as stated: a second remove-mode extraction leaves every remove-mode output as it is
C5_RemoveIdempotent ==
    (OneOut /\ remove) => replace_all(OutContent, TRUE, style, notice) = OutContent

\* the characters of c that stand outside its private blocks hold no "<"
NoAngleOutside(c) == ~HasSub(BlocksDeleted(c), <<"<">>)

\* C5, amended: a second remove-mode extraction leaves the output as it is when no "<"
\* of the input stands outside the private blocks
C5_RemoveIdempotentSeparate ==
    (OneOut /\ remove /\ NoAngleOutside(InContent)) =>
        replace_all(OutContent, TRUE, style, notice) = OutContent

\* blocks were removed from between kept text, and the output is extracted again
C5_Witness ==
    /\ OneOut
    /\ remove
    /\ NoAngleOutside(InContent)
    /\ Len(Blocks(InContent, 1)) >= 2
    /\ OutContent # <<>>

RECURSIVE JoinHead(_, _, _, _)
\* Join up to and with the replacement of the last block: the text after it is left out
JoinHead(c, bs, reps, pos) ==
    IF bs = <<>> THEN <<>>
    ELSE Slice(c, pos, Head(bs).start - 1) \o Head(reps)
           \o JoinHead(c, Tail(bs), Tail(reps), Head(bs).end)

IsPrefix(t, c) == Len(t) <= Len(c) /\ SubSeq(c, 1, Len(t)) = t

\* C6: with two or more private blocks, each is closed by the first --> after its own
\* opening marker, the blocks are replaced one by one, and the text between a block and
\* the next stays in the output, in every mode
C6_BlocksSeparate ==
    (OneOut /\ Len(Blocks(InContent, 1)) >= 2) =>
        LET bs == Blocks(InContent, 1)
            ms == RE_matches(InContent, 1)
        IN /\ Len(ms) = Len(bs)
           /\ IsPrefix(JoinHead(InContent, bs,
                                [k \in 1..Len(bs) |->
                                    Replacement(InContent, ms[k], remove, style, notice)],
                                1),
                       OutContent)

(***************************************************************************)
(* The terms of the claims about the chapter tree.                         *)
(***************************************************************************)
RECURSIVE LastSegment(_, _)
\* the final segment of a path: the text after its last "/"
LastSegment(p, cur) ==
    IF p = <<>> THEN cur
    ELSE IF Head(p) = "/" THEN LastSegment(Tail(p), <<>>)
    ELSE LastSegment(Tail(p), Append(cur, Head(p)))

\* a private chapter: it has a source identifier whose final segment starts with pre
IsPrivate(ch, pre) ==
    /\ ch.source_path # <<>>
    /\ StartsWithAt(LastSegment(ch.source_path[1], <<>>), 1, pre)

RECURSIVE ChapterNames(_)
\* the names of the chapters of a tree, at every depth
ChapterNames(items) ==
    IF items = <<>> THEN {}
    ELSE (IF IsChapter(Head(items))
          THEN {Head(items).name} \cup ChapterNames(Head(items).sub_items)
          ELSE {})
           \cup ChapterNames(Tail(items))

RECURSIVE ChaptersOf(_)
\* the chapters of a tree, at every depth
ChaptersOf(items) ==
    IF items = <<>> THEN {}
    ELSE (IF IsChapter(Head(items))
          THEN {Head(items)} \cup ChaptersOf(Head(items).sub_items)
          ELSE {})
           \cup ChaptersOf(Tail(items))

\* the names of the chapters of the input that are private or lie under a private one
Doomed(items, pre) ==
    UNION {{ch.name} \cup ChapterNames(ch.sub_items) :
              ch \in {x \in ChaptersOf(items) : IsPrivate(x, pre)}}

\* C7: in remove mode no chapter whose file name starts with the prefix, and no
\* descendant of such a chapter, is in the returned tree
C7_PrivateSubtreesAbsent ==
    (Finished /\ remove) => ChapterNames(Returned) \cap Doomed(input, prefix) = {}

\* a private chapter had a descendant that is not private, and other chapters survived
C7_Witness ==
    /\ Finished
    /\ remove
    /\ Returned # <<>>
    /\ \E ch \in ChaptersOf(input) :
          /\ IsPrivate(ch, prefix)
          /\ \E d \in ChaptersOf(ch.sub_items) : ~IsPrivate(d, prefix) /\ d.source_path # <<>>

\* C8: in remove mode a chapter without source identifier whose ancestors are all kept
\* is in the returned tree
C8_NoSourceKept ==
    (Finished /\ remove) =>
        \A ch \in ChaptersOf(input) :
            (/\ ch.source_path = <<>>
             /\ \A k \in 1..Len(ch.parent_names) : ch.parent_names[k] \in ChapterNames(Returned))
                => ch.name \in ChapterNames(Returned)

RECURSIVE KeepPublic(_, _)
\* the items that are no private chapters and have none among their ancestors, in order
KeepPublic(items, pre) ==
    IF items = <<>> THEN <<>>
    ELSE LET it == Head(items)
         IN (IF ~IsChapter(it) THEN <<it>>
             ELSE IF IsPrivate(it, pre) THEN <<>>
             ELSE <<[it EXCEPT !.sub_items = KeepPublic(it.sub_items, pre)]>>)
              \o KeepPublic(Tail(items), pre)

RECURSIVE Outline(_)
\* a tree without the contents and numbers of its chapters: names and order are left
Outline(items) ==
    IF items = <<>> THEN <<>>
    ELSE LET it == Head(items)
         IN <<IF IsChapter(it)
              THEN [kind |-> "Chapter", name |-> it.name, sub_items |-> Outline(it.sub_items)]
              ELSE it>>
              \o Outline(Tail(items))

\* C9: in remove mode the returned tree holds exactly the items that are no private
\* chapters and lie under none, in their order, the other items passed through
C9_ExactlyThePublicItems ==
    (Finished /\ remove) => Outline(Returned) = Outline(KeepPublic(input, prefix))

RECURSIVE DenseFrom(_, _, _, _)
\* the numbered chapters of a sibling list carry the last components k, k+1, ... in
\* order, numbers as long as the depth, the parent's number (when it has one) as prefix
DenseFrom(items, k, depth, parent) ==
    IF items = <<>> THEN TRUE
    ELSE LET it == Head(items)
         IN IF IsChapter(it)
            THEN /\ it.number # <<>> =>
                      /\ Len(it.number[1]) = depth
                      /\ it.number[1][depth] = k
                      /\ parent # <<>> => IsPrefix(parent[1], it.number[1])
                 /\ DenseFrom(it.sub_items, 1, depth + 1, it.number)
                 /\ DenseFrom(Tail(items), IF it.number # <<>> THEN k + 1 ELSE k, depth, parent)
            ELSE DenseFrom(Tail(items), k, depth, parent)

\* C10: after a remove-mode run the numbered chapters of every sibling list carry the
\* last components 1..k, each number as long as the depth and extending the parent's
\* (stated for the inputs whose own numbers are by position already)
C10_NumbersDense ==
    (Finished /\ remove /\ DenseFrom(input, 1, 1, <<>>)) => DenseFrom(Returned, 1, 1, <<>>)

RECURSIVE SiblingLists(_)
\* the sibling lists of a tree: the top level and the sub-items of every chapter
SiblingLists(items) ==
    {items} \cup UNION {SiblingLists(items[i].sub_items) :
                           i \in {j \in 1..Len(items) : IsChapter(items[j])}}

RECURSIVE LastComponents(_)
\* the last components of the numbers of the numbered chapters of a sibling list, in order
LastComponents(items) ==
    IF items = <<>> THEN <<>>
    ELSE LET it == Head(items)
         IN (IF IsChapter(it) /\ it.number # <<>>
             THEN <<it.number[1][Len(it.number[1])]>>
             ELSE <<>>)
              \o LastComponents(Tail(items))

\* the chapter of the input that has the name of ch
InputOf(ch) == CHOOSE c \in ChaptersOf(input) : c.name = ch.name

\* C11: in remove mode a chapter without number in the input has none in the output,
\* and in every sibling list the numbered chapters carry the last components 1, 2, ...
\* in order, the first one 1 however many unnumbered chapters and other items precede it
C11_UnnumberedConsumeNothing ==
    (Finished /\ remove) =>
        /\ \A ch \in ChaptersOf(Returned) : InputOf(ch).number = <<>> => ch.number = <<>>
        /\ \A l \in SiblingLists(Returned) :
              LastComponents(l) = [i \in 1..Len(LastComponents(l)) |-> i]

RECURSIVE WithoutContents(_)
\* a tree with the content of every chapter blanked: all else is left
WithoutContents(items) ==
    IF items = <<>> THEN <<>>
    ELSE LET it == Head(items)
         IN <<IF IsChapter(it)
              THEN [it EXCEPT !.content = <<>>, !.sub_items = WithoutContents(it.sub_items)]
              ELSE it>>
              \o WithoutContents(Tail(items))

\* C12: when remove is false the returned tree is the input tree but for the contents
\* of its chapters (no item dropped, order, number, name, path, source identifier,
\* parent names and sub-item shape unchanged), and the content of every chapter, at
\* every depth, is the keep-mode extraction of its input content
C12_KeepModeOnlyContents ==
    (Finished /\ ~remove) =>
        /\ WithoutContents(Returned) = WithoutContents(input)
        /\ \A ch \in ChaptersOf(Returned) :
              ch.content = replace_all(InputOf(ch).content, FALSE, style, notice)

\* a keep-mode run has ended on a tree with a private chapter that has a sub-chapter,
\* and contents were rewritten
C12_Witness ==
    /\ Finished
    /\ ~remove
    /\ Returned # input
    /\ \E ch \in ChaptersOf(Returned) :
          /\ IsPrivate(ch, prefix)
          /\ ChaptersOf(ch.sub_items) # {}
          /\ \E d \in ChaptersOf(ch.sub_items) : d.content # InputOf(d).content

\* the settings have been resolved: the run is past its configuration block
Resolved == pc \in {"extract", "renumber", "return", "done"}

\* every recognized key of the table is absent or holds a value of its type
WellTyped(c) ==
    /\ c.remove.t \in {"absent", "bool"}
    /\ c.style.t \in {"absent", "bool"}
    /\ c.notice.t \in {"absent", "str"}
    /\ c.chapter_prefix.t \in {"absent", "str"}

\* a boolean setting and a string setting on their own: the value when present, else d
BoolSetting(v, d) == IF v.t = "bool" THEN v.b ELSE d
StrSetting(v, d) == IF v.t = "str" THEN v.s ELSE d

\* C13: each setting is resolved on its own, the supplied value when its key is present
\* and its default when absent, whatever the other keys are; so a table with notice set
\* and style absent gives style true and the configured notice, which the styled
\* wrappers of the returned contents show
C13_SettingsIndependent ==
    (Resolved /\ WellTyped(config)) =>
        /\ remove = BoolSetting(config.remove, FALSE)
        /\ style = BoolSetting(config.style, TRUE)
        /\ notice = StrSetting(config.notice, DefaultNotice)
        /\ prefix = StrSetting(config.chapter_prefix, DefaultPrefix)
        /\ (Finished /\ ~remove) =>
              \A ch \in ChaptersOf(Returned) :
                  ch.content = replace_all(InputOf(ch).content, FALSE,
                                           BoolSetting(config.style, TRUE),
                                           StrSetting(config.notice, DefaultNotice))

\* C14: when a recognized key of the table holds a value of the wrong type, the call
\* never crashes and never returns a tree (an error result is all it can give), and no
\* chapter is modified
C14_WrongTypeIsError ==
    (config.table /\ ~WellTyped(config)) =>
        /\ result \notin {"panic", "Ok"}
        /\ book = input
        /\ private_book = <<>>

\* nothing of the tree is private: no content holds a private block, every chapter has
\* a file name and none starts with pre
NothingPrivate(items, pre) ==
    \A ch \in ChaptersOf(items) :
        /\ Blocks(ch.content, 1) = <<>>
        /\ ch.source_path # <<>>
        /\ ~IsPrivate(ch, pre)

\* C15: a remove-mode run on a tree without private blocks and without private or
\* unnamed chapters, whose numbers are by position already, returns the input tree
C15_RemoveNoOp ==
    (Finished /\ remove /\ NothingPrivate(input, prefix) /\ DenseFrom(input, 1, 1, <<>>))
        => Returned = input

\* such a run has ended on a tree with a numbered chapter after an unnumbered one and
\* with a numbered sub-chapter
C15_Witness ==
    /\ Finished
    /\ remove
    /\ NothingPrivate(input, prefix)
    /\ DenseFrom(input, 1, 1, <<>>)
    /\ Returned = input
    /\ \E l \in SiblingLists(input) :
          /\ Len(l) >= 2
          /\ IsChapter(l[1]) /\ l[1].number = <<>>
          /\ IsChapter(l[2]) /\ l[2].number # <<>>
    /\ \E ch \in ChaptersOf(input) : ch.number # <<>> /\ Len(ch.number[1]) = 2

\* C16: the answer to the host's question is false exactly when the renderer name is
\* "not-supported", and true for every other name, the empty one included
C16_SupportsAllButOne ==
    pc # "supports" => (supported = FALSE <=> host_renderer = "not-supported")

\* the host asked for the empty renderer name and was told yes
C16_Witness ==
    /\ pc = "start"
    /\ host_renderer = ""
    /\ supported

RECURSIVE ExtractedOnce(_, _, _, _)
\* a tree with the content of every chapter, at every depth, extracted one time
ExtractedOnce(items, rm, st, nt) ==
    IF items = <<>> THEN <<>>
    ELSE LET it == Head(items)
         IN <<IF IsChapter(it)
              THEN [it EXCEPT !.content = replace_all(it.content, rm, st, nt),
                              !.sub_items = ExtractedOnce(it.sub_items, rm, st, nt)]
              ELSE it>>
              \o ExtractedOnce(Tail(items), rm, st, nt)

\* the steps from one phase to the next that a run may take
PhaseSteps ==
    {<<"start", "extract">>, <<"start", "panicked">>, <<"extract", "renumber">>,
     <<"extract", "done">>, <<"renumber", "return">>, <<"return", "done">>}

\* one step keeps the order of the phases: the settings change with the configuration
\* step alone, contents during extraction alone, the new tree in the filter step, taken
\* after the last chapter was extracted, and in the renumbering step after it
OrderedStep ==
    /\ pc' # pc => <<pc, pc'>> \in PhaseSteps
    /\ <<remove', style', notice', prefix'>> # <<remove, style, notice, prefix>>
          => pc = "start" /\ pc' = "extract"
    /\ book' # book => pc = "extract" /\ pc' = "extract" /\ todo' = Tail(todo)
    /\ private_book' # private_book =>
          /\ remove
          /\ \/ /\ pc = "extract" /\ pc' = "renumber"
                /\ todo = <<>>
                /\ book = ExtractedOnce(input, remove, style, notice)
             \/ pc = "renumber" /\ pc' = "return"

\* where a run stands: before extraction nothing is changed, during it the chapters
\* still to come are untouched and listed once, after it every chapter at every depth
\* is extracted one time; with remove false no new tree is ever built
OrderedState ==
    /\ pc \in {"start", "panicked"} => book = input /\ private_book = <<>>
    /\ pc = "extract" =>
          /\ private_book = <<>>
          /\ \A i \in 1..Len(todo) :
                /\ IsChapter(ItemAt(input, todo[i])) =>
                      ItemAt(book, todo[i]).content = ItemAt(input, todo[i]).content
                /\ \A j \in 1..Len(todo) : todo[i] = todo[j] => i = j
    /\ pc \in {"renumber", "return", "done"} =>
          /\ todo = <<>>
          /\ book = ExtractedOnce(input, remove, style, notice)
    /\ (Resolved /\ ~remove) => private_book = <<>> /\ pc \in {"extract", "done"}

\* C17: a run resolves the configuration first, then extracts every chapter at every
\* depth one time, filters only after the last extraction and renumbers only after the
\* filter, and with remove false does neither; every run ends, and every run whose
\* configuration can be read ends with its tree returned
C17_PhasesInOrder ==
    /\ [][OrderedStep]_vars
    /\ []OrderedState
    /\ <>(pc \in {"done", "panicked"})
    /\ (~ConfigPanics(config)) => <>Finished

\* a remove-mode run has ended that extracted a chapter under a chapter and dropped
\* a chapter it had extracted before
C17_Witness ==
    /\ Finished
    /\ remove
    /\ \E ch \in ChaptersOf(book) :
          /\ ch.parent_names # <<>>
          /\ ch.content # InputOf(ch).content
    /\ \E ch \in ChaptersOf(book) :
          /\ ch.name \notin ChapterNames(Returned)
          /\ ch.content # InputOf(ch).content

IsSuffix(t, c) == Len(t) <= Len(c) /\ SubSeq(c, Len(c) - Len(t) + 1, Len(c)) = t

\* the position after the --> that closes the match m of RE in c
AfterClose(c, m) == FirstSub(c, T_CLOSE, m.ce) + Len(T_CLOSE)

\* C18: after the --> of a private block the extraction consumes one line break, "\r\n"
\* as a whole, or nothing: the replaced text ends there, and what follows the last
\* block's line break ends the output, in every mode
C18_OneLineBreakAfterClose ==
    OneOut =>
        LET ms == RE_matches(InContent, 1)
        IN \A k \in 1..Len(ms) :
              LET e == AfterClose(InContent, ms[k])
                  after == e + LineBreakLen(InContent, e)
              IN /\ ms[k].end = after
                 /\ k = Len(ms) =>
                       IsSuffix(Slice(InContent, after, Len(InContent)), OutContent)

RECURSIVE WithNumber(_, _)
\* a tree whose numbered chapters all carry the number n: positions are left
WithNumber(items, n) ==
    IF items = <<>> THEN <<>>
    ELSE LET it == Head(items)
         IN <<IF IsChapter(it)
              THEN [it EXCEPT !.number = IF it.number = <<>> THEN <<>> ELSE <<n>>,
                              !.sub_items = WithNumber(it.sub_items, n)]
              ELSE it>>
              \o WithNumber(Tail(items), n)

\* C19: the numbers of the returned tree depend on the positions of its chapters only:
\* every numbered chapter, whatever its ancestors, gets a new number, so the tree
\* returned is the one that renumbering gives when the input numbers are all replaced
\* by another number
C19_NumbersByPositionOnly ==
    (Finished /\ remove) =>
        Returned = update_section_numbers(WithNumber(private_book, <<0>>))

\* C20: in remove mode a chapter of the returned tree is a chapter of the input with
\* the same name, path, source identifier and parent names, and its content is the
\* remove-mode extraction of its input content: filter and renumbering change its
\* sub-items and its number alone
C20_SurvivorsKeepFields ==
    (Finished /\ remove) =>
        \A ch \in ChaptersOf(Returned) :
            /\ ch.name \in ChapterNames(input)
            /\ ch.path = InputOf(ch).path
            /\ ch.source_path = InputOf(ch).source_path
            /\ ch.parent_names = InputOf(ch).parent_names
            /\ ch.content = replace_all(InputOf(ch).content, TRUE, style, notice)

\* a chapter under a chapter survived a remove-mode run with a new number and fewer
\* sub-items or siblings, its content extracted
C20_Witness ==
    /\ Finished
    /\ remove
    /\ ChapterNames(Returned) # ChapterNames(input)
    /\ \E ch \in ChaptersOf(Returned) :
          /\ ch.parent_names # <<>>
          /\ ch.number # InputOf(ch).number
          /\ ch.content # InputOf(ch).content

====
